---- MODULE Spec2Model ----
(***************************************************************************)
(* Bio.SeqIO.SeqXmlIO: the streaming seqXML reader (SeqXmlIterator) and    *)
(* writer (SeqXmlWriter), as a state machine.                              *)
(*                                                                         *)
(* Python values are records [t, v]: t is the type tag, v the payload (a   *)
(* string, or a sequence of values for a list).  A dict is the sequence of *)
(* its items [k, v] in insertion order.  The pull-event source (pulldom's  *)
(* DOMEventStream) is a place in the sequence of events of the document;   *)
(* an event with ev = "PARSE_ERROR" stands for the SAXParseException the   *)
(* source raises when asked for the next event at that point.  The output  *)
(* of the writer is the sequence of its calls on the XMLGenerator.         *)
(***************************************************************************)
EXTENDS Integers, Sequences, FiniteSets, TLC

\* ------------------------------------------------------------ Python values

None == [t |-> "none", v |-> ""]
Str(s) == [t |-> "str", v |-> s]
IntV(s) == [t |-> "int", v |-> s]
FloatV(s) == [t |-> "float", v |-> s]
List(q) == [t |-> "list", v |-> q]
Obj == [t |-> "object", v |-> ""]
\* An attribute of an object that has not been assigned yet.
Unset == [t |-> "unset", v |-> ""]

\* isinstance(x, basestring), isinstance(x, (basestring, int)),
\* isinstance(x, (int, float, basestring)), isinstance(x, list)
IsString(x) == x.t = "str"
IsStringOrInt(x) == x.t \in {"str", "int"}
IsPrimitive(x) == x.t \in {"int", "float", "str"}
IsList(x) == x.t = "list"

\* Python truthiness of a value: None, "", 0 and [] are false.
Truthy(x) ==
  CASE x.t = "none" -> FALSE
    [] x.t = "str" -> x.v # ""
    [] x.t = "int" -> x.v # "0"
    [] x.t = "float" -> x.v # "0.0"
    [] x.t = "list" -> x.v # <<>>
    [] OTHER -> TRUE

\* str(x) of a primitive value: the text of a number, a string itself.
PyStr(x) == Str(x.v)

\* ------------------------------------------------------------------- dicts

EmptyDict == <<>>
Item(k, v) == [k |-> k, v |-> v]
Has(d, k) == \E i \in 1..Len(d) : d[i].k = k
Get(d, k) == d[CHOOSE i \in 1..Len(d) : d[i].k = k].v
\* d[k] = v: a present key keeps its place, a new key goes last.
Put(d, k, v) ==
  IF Has(d, k)
  THEN [i \in 1..Len(d) |-> IF d[i].k = k THEN Item(k, v) ELSE d[i]]
  ELSE Append(d, Item(k, v))
\* d.get(k): None for a missing key.
GetOrNone(d, k) == IF Has(d, k) THEN Get(d, k) ELSE None
Keys(d) == {d[i].k : i \in 1..Len(d)}

\* ------------------------------------------------------------------ events

NoNS == ""
OtherNS == "urn:other"

StartDocument == [ev |-> "START_DOCUMENT"]
StartNS(n, a, ns) == [ev |-> "START_ELEMENT", name |-> n, ns |-> ns, attrs |-> a]
EndNS(n, ns) == [ev |-> "END_ELEMENT", name |-> n, ns |-> ns]
Start(n, a) == StartNS(n, a, NoNS)
End(n) == EndNS(n, NoNS)
Characters(s) == [ev |-> "CHARACTERS", data |-> s]
ParseError(l, c) == [ev |-> "PARSE_ERROR", line |-> l, col |-> c]

\* ----------------------------------------------------------------- records

GenericAlphabet == "generic"
UnknownDescription == "<unknown description>"
UnknownId == "<unknown id>"

\* SeqRecord("", id=""): the empty record an entry start creates.
NewSeqRecord ==
  [id |-> Str(""), seq |-> [data |-> "", alphabet |-> GenericAlphabet, unknown |-> FALSE],
   description |-> Str(UnknownDescription), annotations |-> EmptyDict, dbxrefs |-> <<>>]

\* The handlers' outcomes: the record as changed, or the exception raised.
Ok(r) == [ok |-> TRUE, rec |-> r, err |-> ""]
Raise(e) == [ok |-> FALSE, rec |-> None, err |-> e]

\* `record` is None until the first entry start of a pull: an attribute
\* access on it raises AttributeError.
IsRecord(r) == r # None

\* ------------------------------------------------- SeqXmlIterator handlers

\* Each handler takes the attribute dict (or the expanded node) and the
\* current record, and gives Ok(the record as changed) or Raise(exception).

\* _attr_property without the isinstance(..., list) test: every repeated
\* name wraps what is there and the new value in a new list.
_attr_property_NoListTest(attr_dict, record) ==
  IF ~Has(attr_dict, "name") THEN Raise("ValueError")
  ELSE IF ~IsRecord(record) THEN Raise("AttributeError")
  ELSE
    LET name == Get(attr_dict, "name").v
        value == GetOrNone(attr_dict, "value")
        ann == record.annotations
    IN  IF ~Has(ann, name)
        THEN Ok([record EXCEPT !.annotations = Put(ann, name, value)])
        ELSE Ok([record EXCEPT !.annotations =
                   Put(ann, name, List(<<Get(ann, name), value>>))])

_attr_property(attr_dict, record) ==
  IF ~Has(attr_dict, "name") THEN Raise("ValueError")
  ELSE IF ~IsRecord(record) THEN Raise("AttributeError")
  ELSE
    LET name == Get(attr_dict, "name").v
        value == GetOrNone(attr_dict, "value")
        ann == record.annotations
    IN  IF ~Has(ann, name)
        THEN Ok([record EXCEPT !.annotations = Put(ann, name, value)])
        ELSE IF IsList(Get(ann, name))
        THEN Ok([record EXCEPT !.annotations =
                   Put(ann, name, List(Append(Get(ann, name).v, value)))])
        ELSE Ok([record EXCEPT !.annotations =
                   Put(ann, name, List(<<Get(ann, name), value>>))])

_attr_species(attr_dict, record) ==
  IF ~Has(attr_dict, "name") \/ ~Has(attr_dict, "ncbiTaxID") THEN Raise("ValueError")
  ELSE IF ~IsRecord(record) THEN Raise("AttributeError")
  ELSE Ok([record EXCEPT !.annotations =
             Put(Put(@, "organism", Get(attr_dict, "name")),
                 "ncbi_taxid", Get(attr_dict, "ncbiTaxID"))])

\* _attr_entry with the document's source put before the entry's own.
_attr_entry_DocumentFirst(self, attr_dict, record) ==
  IF ~Has(attr_dict, "id") THEN Raise("ValueError")
  ELSE
    LET a1 == IF self.source # None
              THEN Put(record.annotations, "source", self.source)
              ELSE IF Has(attr_dict, "source")
              THEN Put(record.annotations, "source", Get(attr_dict, "source"))
              ELSE record.annotations
        a2 == IF self.ncbiTaxID # None THEN Put(a1, "ncbi_taxid", self.ncbiTaxID) ELSE a1
        a3 == IF self.speciesName # None THEN Put(a2, "organism", self.speciesName) ELSE a2
    IN  Ok([record EXCEPT !.id = Get(attr_dict, "id"), !.annotations = a3])

_attr_entry(self, attr_dict, record) ==
  IF ~Has(attr_dict, "id") THEN Raise("ValueError")
  ELSE
    LET a1 == IF Has(attr_dict, "source")
              THEN Put(record.annotations, "source", Get(attr_dict, "source"))
              ELSE IF self.source # None
              THEN Put(record.annotations, "source", self.source)
              ELSE record.annotations
        a2 == IF self.ncbiTaxID # None THEN Put(a1, "ncbi_taxid", self.ncbiTaxID) ELSE a1
        a3 == IF self.speciesName # None THEN Put(a2, "organism", self.speciesName) ELSE a2
    IN  Ok([record EXCEPT !.id = Get(attr_dict, "id"), !.annotations = a3])

\* _attr_DBRef that appends without looking for the string in the list.
_attr_DBRef_AlwaysAppend(attr_dict, record) ==
  IF ~Has(attr_dict, "source") \/ ~Has(attr_dict, "id") THEN Raise("ValueError")
  ELSE IF ~IsRecord(record) THEN Raise("AttributeError")
  ELSE Ok([record EXCEPT !.dbxrefs =
             Append(@, Str(Get(attr_dict, "source").v \o ":" \o Get(attr_dict, "id").v))])

_attr_DBRef(attr_dict, record) ==
  IF ~Has(attr_dict, "source") \/ ~Has(attr_dict, "id") THEN Raise("ValueError")
  ELSE IF ~IsRecord(record) THEN Raise("AttributeError")
  ELSE
    LET ref == Str(Get(attr_dict, "source").v \o ":" \o Get(attr_dict, "id").v)
    IN  IF \E i \in 1..Len(record.dbxrefs) : record.dbxrefs[i] = ref
        THEN Ok(record)
        ELSE Ok([record EXCEPT !.dbxrefs = Append(@, ref)])

\* A DOM node as the handlers see it: its child nodes, a text node carrying
\* data, an element child carrying none (reading .data of it raises
\* AttributeError).
TextChild(s) == [kind |-> "text", data |-> s]
ElementChild == [kind |-> "element", data |-> ""]

\* node.hasChildNodes() and len(node.firstChild.data) > 0, or the exception
\* the test raises.
HasContent(node) ==
  IF node = <<>> THEN Ok(FALSE)
  ELSE IF node[1].kind # "text" THEN Raise("AttributeError")
  ELSE Ok(node[1].data # "")

SetSeq(node, record, alphabet) ==
  LET c == HasContent(node)
  IN  IF ~c.ok THEN Raise(c.err)
      ELSE IF ~c.rec THEN Raise("ValueError")
      ELSE IF ~IsRecord(record) THEN Raise("AttributeError")
      ELSE Ok([record EXCEPT !.seq =
                 [data |-> node[1].data, alphabet |-> alphabet, unknown |-> FALSE]])

_elem_DNAseq(node, record) == SetSeq(node, record, "DNA")
_elem_RNAseq(node, record) == SetSeq(node, record, "RNA")
_elem_AAseq(node, record) == SetSeq(node, record, "protein")

_elem_description(node, record) ==
  LET c == HasContent(node)
  IN  IF ~c.ok THEN Raise(c.err)
      ELSE IF ~c.rec THEN Ok(record)
      ELSE IF ~IsRecord(record) THEN Raise("AttributeError")
      ELSE Ok([record EXCEPT !.description = Str(node[1].data)])

\* hasattr(self, "_attr_" + name), hasattr(self, "_elem_" + name)
HasAttrHandler(name) == name \in {"property", "species", "entry", "DBRef"}
HasElemHandler(name) == name \in {"DNAseq", "RNAseq", "AAseq", "description"}

\* getattr(self, "_attr_" + name)(attr_dict, record)
CallAttr(self, name, attr_dict, record) ==
  CASE name = "property" -> _attr_property(attr_dict, record)
    [] name = "species" -> _attr_species(attr_dict, record)
    [] name = "entry" -> _attr_entry(self, attr_dict, record)
    [] name = "DBRef" -> _attr_DBRef(attr_dict, record)

\* getattr(self, "_elem_" + name)(node, record)
CallElem(name, node, record) ==
  CASE name = "DNAseq" -> _elem_DNAseq(node, record)
    [] name = "RNAseq" -> _elem_RNAseq(node, record)
    [] name = "AAseq" -> _elem_AAseq(node, record)
    [] name = "description" -> _elem_description(node, record)

\* ------------------------------------------------------ the event cursor

\* The cursor over the document d is the index of the next event it
\* delivers (Len(d) + 1 when none is left) and whether it has been
\* clear()ed.

\* expandNode appends every node but an element's end to the innermost open
\* parent: the expanded node's own children are those met at depth 0.
ChildOf(e) == IF e.ev = "START_ELEMENT" THEN ElementChild ELSE TextChild(e.data)
Nesting(e) ==
  IF e.ev = "START_ELEMENT" THEN 1 ELSE IF e.ev = "END_ELEMENT" THEN -1 ELSE 0

\* pulldom's expandNode(node): reads events up to and including the end of
\* the element just started, collecting its direct children.  `depth` counts
\* the elements opened inside it.  Gives the children, the index of the next
\* event, and whether the source raised a parse error there.
RECURSIVE ExpandFrom(_, _, _, _)
ExpandFrom(d, i, depth, children) ==
  IF i > Len(d) THEN [children |-> children, next |-> i, failed |-> FALSE]
  ELSE IF d[i].ev = "PARSE_ERROR" THEN [children |-> children, next |-> i, failed |-> TRUE]
  ELSE IF d[i].ev = "END_ELEMENT" /\ depth = 0
  THEN [children |-> children, next |-> i + 1, failed |-> FALSE]
  ELSE ExpandFrom(d, i + 1, depth + Nesting(d[i]),
                  IF depth = 0 /\ d[i].ev # "END_ELEMENT"
                  THEN Append(children, ChildOf(d[i]))
                  ELSE children)

\* expandNode that builds the node and leaves its events in the cursor.
Unread(i, x) == IF x.failed THEN x ELSE [x EXCEPT !.next = i]
expandNode_EventsLeft(d, i) == Unread(i, ExpandFrom(d, i, 0, <<>>))

expandNode(d, i) == ExpandFrom(d, i, 0, <<>>)

\* node.normalize(): adjacent text children become one, empty ones go.
Merge(c, rest) ==
  IF c.kind = "text" /\ c.data = "" THEN rest
  ELSE IF c.kind = "text" /\ rest # <<>> /\ rest[1].kind = "text"
  THEN <<TextChild(c.data \o rest[1].data)>> \o Tail(rest)
  ELSE <<c>> \o rest

RECURSIVE normalize(_)
normalize(children) ==
  IF children = <<>> THEN <<>> ELSE Merge(Head(children), normalize(Tail(children)))

\* ------------------------------------------------ SeqXmlIterator.__next__

\* How the body of the try statement ends: exit is "return" (value is the
\* record handed back), "end" (the seqXML end), "exhausted" (the for loop ran
\* out of events), "SAXParseException" (at line, col) or the exception a
\* handler raised.  next is the index of the event the cursor delivers next.
\* "continue" is one pass of the loop ending: value is the local `record`.
Exit(x, v, i, l, c) == [exit |-> x, value |-> v, next |-> i, line |-> l, col |-> c]

\* The start of an element of the reader's namespace, in three steps: the
\* attribute handler's outcome `a`, the expanded node `x`, the subtree
\* handler's outcome `b`.
AfterElem(i, b) ==
  IF ~b.ok THEN Exit(b.err, None, i, 0, 0) ELSE Exit("continue", b.rec, i, 0, 0)

AfterExpand(d, name, record, x) ==
  IF x.failed
  THEN Exit("SAXParseException", None, x.next, d[x.next].line, d[x.next].col)
  ELSE AfterElem(x.next, CallElem(name, normalize(x.children), record))

AfterAttr(d, i, name, a) ==
  IF ~a.ok THEN Exit(a.err, None, i + 1, 0, 0)
  ELSE IF ~HasElemHandler(name) THEN Exit("continue", a.rec, i + 1, 0, 0)
  ELSE AfterExpand(d, name, a.rec, expandNode(d, i + 1))

StartElement(self, d, i, record) ==
  AfterAttr(d, i, d[i].name,
            IF HasAttrHandler(d[i].name)
            THEN CallAttr(self, d[i].name, d[i].attrs,
                          IF d[i].name = "entry" THEN NewSeqRecord ELSE record)
            ELSE Ok(record))

\* One pass of the loop that reads on past the seqXML end instead of
\* stopping there.
PassOverRootEnd(self, d, i, record) ==
  CASE d[i].ev = "PARSE_ERROR" ->
         Exit("SAXParseException", None, i, d[i].line, d[i].col)
    [] d[i].ev = "START_ELEMENT" /\ d[i].ns = self._namespace ->
         StartElement(self, d, i, record)
    [] d[i].ev = "END_ELEMENT" /\ d[i].ns = self._namespace /\ d[i].name = "entry" ->
         Exit("return", record, i + 1, 0, 0)
    [] OTHER -> Exit("continue", record, i + 1, 0, 0)

\* One pass of the for loop, on event i of d.
Pass(self, d, i, record) ==
  CASE d[i].ev = "PARSE_ERROR" ->
         Exit("SAXParseException", None, i, d[i].line, d[i].col)
    [] d[i].ev = "START_ELEMENT" /\ d[i].ns = self._namespace ->
         StartElement(self, d, i, record)
    [] d[i].ev = "END_ELEMENT" /\ d[i].ns = self._namespace /\ d[i].name = "entry" ->
         Exit("return", record, i + 1, 0, 0)
    [] d[i].ev = "END_ELEMENT" /\ d[i].ns = self._namespace /\ d[i].name = "seqXML" ->
         Exit("end", None, i + 1, 0, 0)
    [] OTHER -> Exit("continue", record, i + 1, 0, 0)

\* The for loop over self._events, from event i of d with the local
\* variable `record`.
RECURSIVE Loop(_, _, _, _)
Again(self, d, x) == IF x.exit = "continue" THEN Loop(self, d, x.next, x.value) ELSE x
Loop(self, d, i, record) ==
  IF i > Len(d) THEN Exit("exhausted", None, i, 0, 0)
  ELSE Again(self, d, Pass(self, d, i, record))

\* The SAXParseException positions the except clause lets pass as an empty
\* file.
IsEmptyFileError(x, os) ==
  \/ x.line = 1 /\ x.col = 0
  \/ x.line = 1 /\ x.col = 1 /\ os = "java"

\* A cursor that has been clear()ed has lost its parser: iterating it again
\* is outside what pulldom defines.  CPython's raises AttributeError; a
\* cursor that simply delivers nothing more is the other outcome.
ClearedOutcomes == {"AttributeError", "exhausted"}

\* One call of __next__ on the reader `self` with the cursor `cur` over d:
\* the reader and cursor afterwards, what the caller gets (kind "return"
\* with the value, or the exception as kind), how many times the call
\* released the cursor (clear() or dropping the reference), and how the try
\* body ended ("closed": it was not entered, self._events being None).
Pulled(self, cur, kind, value, rel, x) ==
  [self |-> self, cur |-> cur, kind |-> kind, value |-> value, rel |-> rel,
   exit |-> x.exit, line |-> x.line, col |-> x.col]

Drop(self) == [self EXCEPT !._events = None]
Move(cur, x) == [cur EXCEPT !.pos = x.next]
Clear(cur, x) == [cur EXCEPT !.pos = x.next, !.cleared = TRUE]

\* The return and the except clauses, the seqXML end keeping the cursor.
Leave_EndKeepsCursor(self, cur, os, x) ==
  CASE x.exit = "return" -> Pulled(self, Move(cur, x), "return", x.value, 0, x)
    [] x.exit = "end" -> Pulled(self, Move(cur, x), "StopIteration", None, 0, x)
    [] x.exit = "exhausted" -> Pulled(self, Move(cur, x), "return", None, 0, x)
    [] x.exit = "SAXParseException" ->
         Pulled(self, Clear(cur, x),
                IF IsEmptyFileError(x, os) THEN "return" ELSE "SAXParseException",
                None, 1, x)
    [] OTHER -> Pulled(Drop(self), Move(cur, x), x.exit, None, 1, x)

\* The return and the except clauses, for the try body ending as x.
Leave(self, cur, os, x) ==
  CASE x.exit = "return" -> Pulled(self, Move(cur, x), "return", x.value, 0, x)
    [] x.exit = "end" -> Pulled(Drop(self), Move(cur, x), "StopIteration", None, 1, x)
    [] x.exit = "exhausted" -> Pulled(self, Move(cur, x), "return", None, 0, x)
    [] x.exit = "SAXParseException" ->
         Pulled(self, Clear(cur, x),
                IF IsEmptyFileError(x, os) THEN "return" ELSE "SAXParseException",
                None, 1, x)
    [] OTHER -> Pulled(Drop(self), Move(cur, x), x.exit, None, 1, x)

__next__(self, d, cur, os, cleared_outcome) ==
  IF self._events = None
  THEN Pulled(self, cur, "StopIteration", None, 0, Exit("closed", None, cur.pos, 0, 0))
  ELSE Leave(self, cur, os,
             IF cur.cleared
             THEN Exit(cleared_outcome, None, cur.pos, 0, 0)
             ELSE Loop(self, d, cur.pos, None))

\* ------------------------------------------------ SeqXmlIterator.__init__

\* The object before __init__ has run: no attribute is set.
NoReader ==
  [source |-> Unset, source_version |-> Unset, version |-> Unset,
   speciesName |-> Unset, ncbiTaxID |-> Unset, sourceVersion |-> Unset,
   seqXMLversion |-> Unset, _namespace |-> NoNS, _events |-> Unset]

\* self._events holds the cursor pulldom.parse returned.
TheCursor == [t |-> "DOMEventStream", v |-> ""]

Constructed(self, cur, exc, rel) == [self |-> self, cur |-> cur, raised |-> exc, rel |-> rel]

\* item.value if the root element has the attribute n, else the field as it is.
RootAttr(a, n, old) == IF Has(a, n) THEN Get(a, n) ELSE old

\* _read_header: the root element's attributes become the document metadata.
_read_header(self, d, cur) ==
  IF cur.pos > Len(d) THEN Constructed(self, cur, "StopIteration", 0)
  ELSE IF d[cur.pos].ev = "PARSE_ERROR" THEN Constructed(self, cur, "SAXParseException", 0)
  ELSE IF d[cur.pos].ev # "START_ELEMENT" \/ d[cur.pos].name # "seqXML"
  THEN Constructed(self, [cur EXCEPT !.pos = @ + 1], "ValueError", 0)
  ELSE Constructed(
         [self EXCEPT !.source = RootAttr(d[cur.pos].attrs, "source", @),
                      !.sourceVersion = RootAttr(d[cur.pos].attrs, "sourceVersion", @),
                      !.seqXMLversion = RootAttr(d[cur.pos].attrs, "seqXMLversion", @),
                      !.ncbiTaxID = RootAttr(d[cur.pos].attrs, "ncbiTaxID", @),
                      !.speciesName = RootAttr(d[cur.pos].attrs, "speciesName", @)],
         [cur EXCEPT !.pos = @ + 1], "", 0)

\* except Exception: self._events = None; raise
Guarded(h) ==
  IF h.raised # "" THEN Constructed(Drop(h.self), h.cur, h.raised, 1) ELSE h

\* __init__(handle, namespace): d is what pulldom.parse(handle) will
\* deliver.  raised is "" when the constructor returns.
Fresh(namespace) ==
  [NoReader EXCEPT !.source = None, !.source_version = None, !.version = None,
                   !.speciesName = None, !.ncbiTaxID = None,
                   !._namespace = namespace, !._events = TheCursor]

__init__(d, namespace) ==
  Guarded(
    IF d = <<>>
    THEN Constructed(Fresh(namespace), [pos |-> 1, cleared |-> FALSE], "ValueError", 0)
    ELSE IF d[1].ev = "PARSE_ERROR"
    THEN Constructed(Fresh(namespace), [pos |-> 1, cleared |-> FALSE], "SAXParseException", 0)
    ELSE IF d[1].ev # "START_DOCUMENT"
    THEN Constructed(Fresh(namespace), [pos |-> 2, cleared |-> FALSE], "ValueError", 0)
    ELSE _read_header(Fresh(namespace), d, [pos |-> 2, cleared |-> FALSE]))

\* ------------------------------------------------------------ SeqXmlWriter

\* What the writer hands to its XMLGenerator, call by call.
StartDocumentCall == [op |-> "startDocument"]
EndDocumentCall == [op |-> "endDocument"]
StartElementCall(n, a) == [op |-> "startElement", name |-> n, attrs |-> a]
EndElementCall(n) == [op |-> "endElement", name |-> n]
CharactersCall(x) == [op |-> "characters", data |-> x]

\* A step of a write method: the output so far and the exception raised, ""
\* while there is none.  A step after an exception does nothing.
W(out, exc) == [out |-> out, raised |-> exc]
Emit(w, calls) == IF w.raised # "" THEN w ELSE W(w.out \o calls, "")
Throw(w, exc) == IF w.raised # "" THEN w ELSE W(w.out, exc)

\* The characters of the strings the cross-references are made of.
Chars(x) ==
  CASE x = "db:1" -> <<"d", "b", ":", "1">>
    [] x = "db:2" -> <<"d", "b", ":", "2">>
    [] x = "a:b:c" -> <<"a", ":", "b", ":", "c">>
    [] x = ":1" -> <<":", "1">>
    [] x = "db" -> <<"d", "b">>
    [] x = "" -> <<>>
RECURSIVE Join(_)
Join(cs) == IF cs = <<>> THEN "" ELSE Head(cs) \o Join(Tail(cs))

\* x.find(":"): the index from 0 of the first colon, -1 if there is none.
Find(cs) ==
  IF \E i \in 1..Len(cs) : cs[i] = ":"
  THEN (CHOOSE i \in 1..Len(cs) : cs[i] = ":" /\ \A j \in 1..(i - 1) : cs[j] # ":") - 1
  ELSE -1
\* x.split(":", 1) of a string with a colon
SplitHead(cs) == Join(SubSeq(cs, 1, Find(cs)))
SplitTail(cs) == Join(SubSeq(cs, Find(cs) + 2, Len(cs)))

\* Alphabet._get_base_alphabet: the alphabet under a Gapped wrapping.
_get_base_alphabet(alphabet) == IF alphabet = "Gapped(DNA)" THEN "DNA" ELSE alphabet

\* The local ncbi_taxid of _write_species: a list of one is its element, an
\* empty list is None; for a longer list a ValueError is built but not
\* raised, and the list stays.
LocalTaxid(record) ==
  IF ~Has(record.annotations, "ncbi_taxid") THEN None
  ELSE IF ~IsList(Get(record.annotations, "ncbi_taxid")) THEN Get(record.annotations, "ncbi_taxid")
  ELSE IF Len(Get(record.annotations, "ncbi_taxid").v) = 1
  THEN Get(record.annotations, "ncbi_taxid").v[1]
  ELSE IF Len(Get(record.annotations, "ncbi_taxid").v) = 0 THEN None
  ELSE Get(record.annotations, "ncbi_taxid")

SpeciesBlock(self, w, local_org, local_ncbi_taxid) ==
  IF ~IsString(local_org) THEN Throw(w, "TypeError")
  ELSE IF ~IsStringOrInt(local_ncbi_taxid) THEN Throw(w, "TypeError")
  ELSE IF local_org # self.species \/ local_ncbi_taxid # self.ncbiTaxId
  THEN Emit(w, <<StartElementCall("species", <<Item("name", local_org),
                                               Item("ncbiTaxID", local_ncbi_taxid)>>),
                 EndElementCall("species")>>)
  ELSE w

_write_species(self, record, w) ==
  IF Has(record.annotations, "organism") /\ Truthy(LocalTaxid(record))
  THEN SpeciesBlock(self, w, Get(record.annotations, "organism"), LocalTaxid(record))
  ELSE w

_write_description(record, w) ==
  IF ~Truthy(record.description) THEN w
  ELSE IF ~IsString(record.description) THEN Throw(w, "TypeError")
  ELSE IF record.description.v # ""
  THEN Emit(w, <<StartElementCall("description", EmptyDict),
                 CharactersCall(IF record.description.v = UnknownDescription
                                THEN "" ELSE record.description.v),
                 EndElementCall("description")>>)
  ELSE w

SeqElem(alpha) ==
  CASE alpha = "RNA" -> "RNAseq"
    [] alpha = "DNA" -> "DNAseq"
    [] alpha = "protein" -> "AAseq"
    [] OTHER -> ""

\* _write_seq that leaves its element open.
_write_seq_Unclosed(record, w) ==
  IF record.seq.unknown THEN Throw(w, "TypeError")
  ELSE IF record.seq.data = "" THEN Throw(w, "ValueError")
  ELSE IF SeqElem(_get_base_alphabet(record.seq.alphabet)) = "" THEN Throw(w, "ValueError")
  ELSE Emit(w, <<StartElementCall(SeqElem(_get_base_alphabet(record.seq.alphabet)), EmptyDict),
                 CharactersCall(record.seq.data)>>)

_write_seq(record, w) ==
  IF record.seq.unknown THEN Throw(w, "TypeError")
  ELSE IF record.seq.data = "" THEN Throw(w, "ValueError")
  ELSE IF SeqElem(_get_base_alphabet(record.seq.alphabet)) = "" THEN Throw(w, "ValueError")
  ELSE Emit(w, <<StartElementCall(SeqElem(_get_base_alphabet(record.seq.alphabet)), EmptyDict),
                 CharactersCall(record.seq.data),
                 EndElementCall(SeqElem(_get_base_alphabet(record.seq.alphabet)))>>)

\* One pass of the loop over record.dbxrefs.
WriteDbxref(dbxref, w) ==
  IF ~IsString(dbxref) THEN Throw(w, "TypeError")
  ELSE IF Find(Chars(dbxref.v)) < 1 THEN Throw(w, "ValueError")
  ELSE Emit(w, <<StartElementCall("DBRef", <<Item("source", Str(SplitHead(Chars(dbxref.v)))),
                                             Item("id", Str(SplitTail(Chars(dbxref.v))))>>),
                 EndElementCall("DBRef")>>)

RECURSIVE WriteDbxrefsFrom(_, _, _)
WriteDbxrefsFrom(dbxrefs, i, w) ==
  IF i > Len(dbxrefs) THEN w
  ELSE WriteDbxrefsFrom(dbxrefs, i + 1, WriteDbxref(dbxrefs[i], w))

_write_dbxrefs(record, w) == WriteDbxrefsFrom(record.dbxrefs, 1, w)

PropertyTag(attr) == <<StartElementCall("property", attr), EndElementCall("property")>>

\* for v in value: the test is on the list `value`, not on its element v.
RECURSIVE WriteListFrom(_, _, _, _)
WriteListFrom(key, value, j, w) ==
  IF j > Len(value.v) THEN w
  ELSE WriteListFrom(key, value, j + 1,
                     IF IsPrimitive(value)
                     THEN Emit(w, PropertyTag(<<Item("name", Str(key)), Item("value", value.v[j])>>))
                     ELSE w)

\* One pass of the loop over record.annotations.items().
WriteProperty(key, value, w) ==
  IF key \in {"organism", "ncbi_taxid", "source"} THEN w
  ELSE IF value = None THEN Emit(w, PropertyTag(<<Item("name", Str(key))>>))
  ELSE IF IsList(value) THEN WriteListFrom(key, value, 1, w)
  ELSE IF IsPrimitive(value)
  THEN Emit(w, PropertyTag(<<Item("name", Str(key)), Item("value", PyStr(value))>>))
  ELSE w

RECURSIVE WritePropertiesFrom(_, _, _)
WritePropertiesFrom(annotations, i, w) ==
  IF i > Len(annotations) THEN w
  ELSE WritePropertiesFrom(annotations, i + 1,
                           WriteProperty(annotations[i].k, annotations[i].v, w))

_write_properties(record, w) == WritePropertiesFrom(record.annotations, 1, w)

\* The attributes of the entry start tag, the source never left out.
EntryAttrb_SourceAlways(self, record) ==
  IF Has(record.annotations, "source")
  THEN <<Item("id", record.id), Item("source", Get(record.annotations, "source"))>>
  ELSE <<Item("id", record.id)>>

\* The attributes of the entry start tag.
EntryAttrb(self, record) ==
  IF Has(record.annotations, "source") /\ self.source # Get(record.annotations, "source")
  THEN <<Item("id", record.id), Item("source", Get(record.annotations, "source"))>>
  ELSE <<Item("id", record.id)>>

\* write_record with the identifier checked after the entry start.
write_record_IdAfterStart(self, out, record) ==
  IF /\ Has(record.annotations, "source")
     /\ self.source # Get(record.annotations, "source")
     /\ ~IsString(Get(record.annotations, "source"))
  THEN W(out, "TypeError")
  ELSE IF ~Truthy(record.id) \/ record.id = Str(UnknownId)
  THEN W(Append(out, StartElementCall("entry", EntryAttrb(self, record))), "ValueError")
  ELSE IF ~IsString(record.id)
  THEN W(Append(out, StartElementCall("entry", EntryAttrb(self, record))), "TypeError")
  ELSE Emit(_write_properties(record,
              _write_dbxrefs(record,
                _write_seq(record,
                  _write_description(record,
                    _write_species(self, record,
                      Emit(W(out, ""),
                           <<StartElementCall("entry", EntryAttrb(self, record))>>)))))),
            <<EndElementCall("entry")>>)

\* write_record that takes the unknown identifier for an identifier.
write_record_UnknownIdWritten(self, out, record) ==
  IF ~Truthy(record.id) THEN W(out, "ValueError")
  ELSE IF ~IsString(record.id) THEN W(out, "TypeError")
  ELSE IF /\ Has(record.annotations, "source")
          /\ self.source # Get(record.annotations, "source")
          /\ ~IsString(Get(record.annotations, "source"))
  THEN W(out, "TypeError")
  ELSE Emit(_write_properties(record,
              _write_dbxrefs(record,
                _write_seq(record,
                  _write_description(record,
                    _write_species(self, record,
                      Emit(W(out, ""),
                           <<StartElementCall("entry", EntryAttrb(self, record))>>)))))),
            <<EndElementCall("entry")>>)

\* write_record(record) with `out` written so far.
write_record(self, out, record) ==
  IF ~Truthy(record.id) \/ record.id = Str(UnknownId) THEN W(out, "ValueError")
  ELSE IF ~IsString(record.id) THEN W(out, "TypeError")
  ELSE IF /\ Has(record.annotations, "source")
          /\ self.source # Get(record.annotations, "source")
          /\ ~IsString(Get(record.annotations, "source"))
  THEN W(out, "TypeError")
  ELSE Emit(_write_properties(record,
              _write_dbxrefs(record,
                _write_seq(record,
                  _write_description(record,
                    _write_species(self, record,
                      Emit(W(out, ""),
                           <<StartElementCall("entry", EntryAttrb(self, record))>>)))))),
            <<EndElementCall("entry")>>)

\* SequentialSequenceWriter (Bio/SeqIO/Interfaces.py): the checks of the call
\* order that write_header and write_footer start with.  The writer `self`
\* afterwards, or the usage error.
Started(self, exc) == [self |-> self, raised |-> exc]

SequentialSequenceWriter_write_header(self) ==
  IF self._header_written \/ self._footer_written
  THEN Started(self, "AssertionError")
  ELSE Started([self EXCEPT !._header_written = TRUE], "")

SequentialSequenceWriter_write_footer(self) ==
  IF ~self._header_written \/ self._footer_written
  THEN Started(self, "AssertionError")
  ELSE Started([self EXCEPT !._footer_written = TRUE], "")

\* The attributes of the root element.
Optional(attrs, n, value) == IF value # None THEN Append(attrs, Item(n, value)) ELSE attrs
RootAttrb(self) ==
  Optional(Optional(Optional(Optional(
    <<Item("xmlns:xsi", Str("http://www.w3.org/2001/XMLSchema-instance")),
      Item("xsi:noNamespaceSchemaLocation", Str("http://www.seqxml.org/0.4/seqxml.xsd")),
      Item("seqXMLversion", Str("0.4"))>>,
    "source", self.source), "sourceVersion", self.source_version),
    "speciesName", self.species), "ncbiTaxID", self.ncbiTaxId)

\* write_header() after the base class's check.
write_header(self, out) ==
  IF self.species # None /\ ~IsString(self.species) THEN W(out, "TypeError")
  ELSE IF self.ncbiTaxId # None /\ ~IsStringOrInt(self.ncbiTaxId) THEN W(out, "TypeError")
  ELSE W(Append(out, StartElementCall("seqXML", RootAttrb(self))), "")

\* write_footer() after the base class's check.
write_footer(self, out) == W(out \o <<EndElementCall("seqXML"), EndDocumentCall>>, "")

\* SeqXmlWriter(handle, source, source_version, species, ncbiTaxId)
SeqXmlWriter__init__(source, source_version, species, ncbiTaxId) ==
  [source |-> source, source_version |-> source_version, species |-> species,
   ncbiTaxId |-> ncbiTaxId,
   _header_written |-> FALSE, _footer_written |-> FALSE]

\* ------------------------------------------- from the writer to the reader

\* What XMLGenerator writes for the calls and pulldom parses back: a start
\* tag with its attribute values as text is a start event, character data
\* that is not empty a text event, an end tag an end event.  Where the text
\* is no well-formed XML document (a tag after the root element has ended,
\* an end tag that closes another element than the open one, text outside
\* the root, the text ending with elements open), the parser raises its
\* error; the XML declaration fills line 1, so the error is at a later line.
SyntaxError == ParseError(2, 0)

Textual(attrs) == [i \in 1..Len(attrs) |-> Item(attrs[i].k, Str(attrs[i].v.v))]

Breaks(c, stack, closed) ==
  CASE c.op = "startElement" -> closed
    [] c.op = "endElement" -> stack = <<>> \/ stack[Len(stack)] # c.name
    [] c.op = "characters" -> stack = <<>> /\ c.data # ""
    [] OTHER -> FALSE

Opened(c, stack) ==
  CASE c.op = "startElement" -> Append(stack, c.name)
    [] c.op = "endElement" -> SubSeq(stack, 1, Len(stack) - 1)
    [] OTHER -> stack

EventsOf(c) ==
  CASE c.op = "startDocument" -> <<StartDocument>>
    [] c.op = "startElement" -> <<Start(c.name, Textual(c.attrs))>>
    [] c.op = "endElement" -> <<End(c.name)>>
    [] c.op = "characters" -> IF c.data = "" THEN <<>> ELSE <<Characters(c.data)>>
    [] OTHER -> <<>>

RECURSIVE ParseFrom(_, _, _, _, _)
ParseFrom(out, i, stack, closed, events) ==
  IF i > Len(out)
  THEN IF closed THEN events ELSE Append(events, SyntaxError)
  ELSE IF Breaks(out[i], stack, closed) THEN Append(events, SyntaxError)
  ELSE ParseFrom(out, i + 1, Opened(out[i], stack),
                 closed \/ (out[i].op = "endElement" /\ Len(stack) = 1),
                 events \o EventsOf(out[i]))

Parse(out) == ParseFrom(out, 1, <<>>, FALSE, <<>>)

\* ------------------------------------------------------------- documents

\* The bounds of the model.
MaxItems == 2
MaxAttrItems == 3
MaxEntries == 2
MaxPulls == 4
MaxRecords == 2
MaxCalls == 4

SeqsUpTo(S, n) == UNION {[1..k -> S] : k \in 0..n}

RECURSIVE Flatten(_)
Flatten(q) == IF q = <<>> THEN <<>> ELSE Head(q) \o Flatten(Tail(q))

Attr(k, s) == Item(k, Str(s))
Empty(n, a) == <<Start(n, a), End(n)>>
Text(n, s) == <<Start(n, EmptyDict), Characters(s), End(n)>>

\* Elements whose attributes a handler reads.
AttrUnits ==
  { Empty("species", <<Attr("name", "Mus"), Attr("ncbiTaxID", "10090")>>),
    Empty("property", <<Attr("name", "k"), Attr("value", "u")>>),
    Empty("property", <<Attr("name", "k"), Attr("value", "v")>>),
    Empty("property", <<Attr("name", "k")>>),
    Empty("property", <<Attr("name", "source"), Attr("value", "u")>>),
    Empty("property", <<Attr("name", "organism"), Attr("value", "u")>>),
    Empty("DBRef", <<Attr("source", "db"), Attr("id", "1")>>),
    Empty("DBRef", <<Attr("source", "db"), Attr("id", "2")>>) }

\* Elements the reader expands into a node, and elements it has no handler
\* for; some with elements nested where only text is expected.
NestedEntry == Empty("entry", <<Attr("id", "n")>>)
BlockUnits ==
  { Text("DNAseq", "ACGT"),
    Text("RNAseq", "ACGU"),
    <<Start("AAseq", EmptyDict), Characters("M"), Characters("K"), End("AAseq")>>,
    Empty("DNAseq", EmptyDict),
    <<Start("DNAseq", EmptyDict)>> \o NestedEntry \o <<End("DNAseq")>>,
    <<Start("AAseq", EmptyDict), Characters("MK")>>
       \o Empty("property", <<Attr("name", "k"), Attr("value", "u")>>)
       \o <<End("AAseq")>>,
    Text("description", "d"),
    Empty("description", EmptyDict),
    <<Start("description", EmptyDict), Characters("d")>> \o Empty("seqXML", EmptyDict)
       \o <<End("description")>>,
    <<Start("description", EmptyDict), Characters("d")>> \o NestedEntry
       \o <<End("description")>>,
    <<Start("RNAseq", EmptyDict), Characters("ACGU")>>
       \o Empty("species", <<Attr("name", "Mus"), Attr("ncbiTaxID", "10090")>>)
       \o Empty("DBRef", <<Attr("source", "db"), Attr("id", "1")>>)
       \o <<End("RNAseq")>>,
    Empty("foo", EmptyDict),
    NestedEntry,
    <<StartNS("entry", <<Attr("id", "o")>>, OtherNS), EndNS("entry", OtherNS)>> }

MixedUnits ==
  BlockUnits \cup
  { Empty("species", <<Attr("name", "Mus"), Attr("ncbiTaxID", "10090")>>),
    Empty("species", <<Attr("name", "Mus")>>),
    Empty("property", <<Attr("name", "k"), Attr("value", "u")>>),
    Empty("property", <<Attr("value", "u")>>),
    Empty("DBRef", <<Attr("source", "db"), Attr("id", "1")>>),
    Empty("DBRef", <<Attr("source", "db")>>) }

RootAttrs ==
  { EmptyDict,
    <<Attr("source", "x")>>,
    <<Attr("speciesName", "Homo"), Attr("ncbiTaxID", "9606")>>,
    <<Attr("ncbiTaxID", "9606")>>,
    <<Attr("seqXMLversion", "0.4"), Attr("source", "x"), Attr("sourceVersion", "1"),
      Attr("speciesName", "Homo"), Attr("ncbiTaxID", "9606"), Attr("lang", "en")>> }

\* <seqXML ...> body </seqXML> as the cursor delivers it.
Document(rootAttrs, body) ==
  <<StartDocument, Start("seqXML", rootAttrs)>> \o body \o <<End("seqXML")>>
Entry(a, units) == <<Start("entry", a)>> \o Flatten(units) \o <<End("entry")>>

\* The root and entry attributes the one-entry documents are built with.
Headers ==
  { <<EmptyDict, <<Attr("id", "a")>> >>,
    <<EmptyDict, EmptyDict>>,
    << <<Attr("source", "x")>>, <<Attr("id", "b"), Attr("source", "y")>> >>,
    << <<Attr("speciesName", "Homo"), Attr("ncbiTaxID", "9606")>>, <<Attr("id", "a")>> >>,
    << <<Attr("source", "x"), Attr("ncbiTaxID", "9606")>>, <<Attr("id", "a"), Attr("source", "x")>> >> }

\* One entry holding up to MaxItems units of any kind, and one unit under
\* each of the headers.
MixedDocs ==
  { Document(EmptyDict, Entry(<<Attr("id", "a")>>, q)) : q \in SeqsUpTo(MixedUnits, MaxItems) }
  \cup { Document(h[1], Entry(h[2], q)) : h \in Headers, q \in SeqsUpTo(MixedUnits, 1) }

\* One entry holding up to MaxAttrItems attribute-handled elements; the
\* shorter ones also in a document with a source.
AttrDocs ==
  { Document(EmptyDict, Entry(<<Attr("id", "a")>>, q)) : q \in SeqsUpTo(AttrUnits, MaxAttrItems) }
  \cup { Document(<<Attr("source", "x")>>, Entry(<<Attr("id", "a")>>, q)) :
           q \in SeqsUpTo(AttrUnits, MaxAttrItems - 1) }

\* A unit directly under the root, outside any entry.
StrayDocs == { Document(EmptyDict, u) : u \in MixedUnits }

\* Up to MaxEntries entries, one after the other.
SimpleEntries ==
  { Entry(<<Attr("id", "a")>>, <<Text("DNAseq", "ACGT")>>),
    Entry(<<Attr("id", "b"), Attr("source", "y")>>,
          <<Text("description", "d"), Text("AAseq", "MK")>>),
    Entry(<<Attr("id", "c")>>, <<>>),
    Entry(EmptyDict, <<Text("DNAseq", "ACGT")>>),
    <<StartNS("entry", <<Attr("id", "o")>>, OtherNS), EndNS("entry", OtherNS)>> }

EntryDocs ==
  { Document(r, Flatten(q)) : r \in RootAttrs, q \in SeqsUpTo(SimpleEntries, MaxEntries) }

\* The same with the root element in another namespace than its entries.
OtherRootDocs ==
  { <<StartDocument, StartNS("seqXML", EmptyDict, OtherNS)>> \o Flatten(q)
       \o <<EndNS("seqXML", OtherNS)>> : q \in SeqsUpTo(SimpleEntries, MaxEntries) }

\* The positions a SAXParseException is raised at: the start of input, the
\* Jython empty-file position, and a position inside the document.
ErrorPositions == {<<1, 0>>, <<1, 1>>, <<3, 7>>}

\* The entries of the documents that break off.
BreakableEntries ==
  { Entry(<<Attr("id", "a")>>, <<Text("DNAseq", "ACGT")>>),
    Entry(<<Attr("id", "b"), Attr("source", "y")>>,
          <<Text("description", "d"), Text("AAseq", "MK")>>),
    <<StartNS("entry", <<Attr("id", "o")>>, OtherNS), EndNS("entry", OtherNS)>> }

\* A document the parser gives up on after its first i events.
BreakableDocs ==
  { Document(EmptyDict, Flatten(q)) : q \in SeqsUpTo(BreakableEntries, MaxEntries) }
  \cup { Document(EmptyDict, Entry(<<Attr("id", "a")>>, <<u>>)) : u \in BlockUnits }
BrokenDocs ==
  UNION { { SubSeq(d, 1, i) \o <<ParseError(p[1], p[2])>> :
              i \in 0..(Len(d) - 1), p \in ErrorPositions } : d \in BreakableDocs }

\* What the constructor rejects.
HeadlessDocs ==
  { <<>>, <<StartDocument>>, <<Start("seqXML", EmptyDict), End("seqXML")>>,
    <<StartDocument, Start("html", EmptyDict), End("html")>>,
    <<StartDocument, Characters(" "), Start("seqXML", EmptyDict), End("seqXML")>> }

Namespaces == {NoNS, OtherNS}
OsNames == {"posix", "java"}

\* The inputs of a run: the document, the namespace argument, os.name.
Inputs ==
  ((MixedDocs \cup AttrDocs \cup StrayDocs \cup HeadlessDocs) \X {NoNS} \X {"posix"})
  \cup ((EntryDocs \cup OtherRootDocs) \X Namespaces \X {"posix"})
  \cup (BrokenDocs \X {NoNS} \X {"posix"})
  \cup ({d \in BrokenDocs : d[Len(d)] = ParseError(1, 1)} \X {NoNS} \X {"java"})

\* ------------------------------------------------------ records to write

SeqOf(data, alphabet) == [data |-> data, alphabet |-> alphabet, unknown |-> FALSE]
UnknownSeq == [data |-> "????", alphabet |-> GenericAlphabet, unknown |-> TRUE]

Rec(id, seq, description, annotations, dbxrefs) ==
  [id |-> id, seq |-> seq, description |-> description,
   annotations |-> annotations, dbxrefs |-> dbxrefs]

Ids == {Str("a"), Str(""), None, Str(UnknownId), IntV("7")}
Seqs ==
  { SeqOf("ACGT", "DNA"), SeqOf("ACGU", "RNA"), SeqOf("MK", "protein"),
    SeqOf("AC-T", "Gapped(DNA)"), SeqOf("ACGT", GenericAlphabet),
    SeqOf("", "DNA"), UnknownSeq }
Descriptions == {Str(UnknownDescription), Str("d"), Str(""), None, IntV("5")}
DbxrefLists ==
  { <<>>, <<Str("db:1")>>, <<Str("db:1"), Str("db:2")>>, <<Str("a:b:c")>>,
    <<Str(":1")>>, <<Str("db")>>, <<IntV("1")>>, <<Str("db:1"), Str("db")>> }
SourceAnnotations ==
  { <<Item("source", Str("x"))>>, <<Item("source", Str("y"))>>,
    <<Item("source", IntV("1"))>> }
SpeciesAnnotations ==
  { <<Item("organism", Str("Homo")), Item("ncbi_taxid", Str("9606"))>>,
    <<Item("organism", Str("Homo")), Item("ncbi_taxid", IntV("9606"))>>,
    <<Item("organism", Str("Mus")), Item("ncbi_taxid", List(<<Str("10090")>>))>>,
    <<Item("organism", Str("Mus")), Item("ncbi_taxid", List(<<>>))>>,
    <<Item("organism", Str("Mus")), Item("ncbi_taxid", List(<<Str("9606"), Str("10090")>>))>>,
    <<Item("ncbi_taxid", List(<<Str("9606"), Str("10090")>>))>>,
    <<Item("organism", Str("Mus")), Item("ncbi_taxid", FloatV("1.5"))>>,
    <<Item("organism", IntV("1")), Item("ncbi_taxid", Str("9606"))>>,
    <<Item("organism", Str("Mus"))>>,
    <<Item("ncbi_taxid", Str("10090"))>> }
PropertyAnnotations ==
  { <<Item("k", None)>>, <<Item("k", Str("u"))>>, <<Item("k", IntV("3"))>>,
    <<Item("k", FloatV("1.5"))>>, <<Item("k", Obj)>>,
    <<Item("k", List(<<Str("u"), Str("v")>>))>>, <<Item("k", List(<<Str("u")>>))>>,
    <<Item("k", List(<<>>))>>,
    <<Item("k", Str("u")), Item("j", Str("v"))>>,
    <<Item("j", List(<<Str("u"), Str("v")>>)), Item("k", Str("u"))>> }

\* The records that differ from a plain one in one field.
Plain == Rec(Str("a"), SeqOf("ACGT", "DNA"), Str(UnknownDescription), EmptyDict, <<>>)
VariedRecords ==
  { [Plain EXCEPT !.id = x] : x \in Ids }
  \cup { [Plain EXCEPT !.seq = x] : x \in Seqs }
  \cup { [Plain EXCEPT !.description = x] : x \in Descriptions }
  \cup { [Plain EXCEPT !.dbxrefs = x] : x \in DbxrefLists }
  \cup { [Plain EXCEPT !.annotations = x] :
           x \in SourceAnnotations \cup SpeciesAnnotations \cup PropertyAnnotations }

\* The records with several fields at once valid or not.
CrossedRecords ==
  { Rec(i, q, d, a \o b, x) :
      i \in {Str("a"), Str(""), IntV("7")},
      q \in {SeqOf("ACGT", "DNA"), SeqOf("ACGT", GenericAlphabet)},
      d \in {Str("d")},
      a \in {EmptyDict, <<Item("source", IntV("1"))>>},
      b \in { EmptyDict,
              <<Item("organism", Str("Mus")), Item("ncbi_taxid", Str("10090"))>>,
              <<Item("organism", IntV("1")), Item("ncbi_taxid", Str("9606"))>> },
      x \in {<<>>, <<Str("db:1"), Str("db")>>} }

\* The records of the longer sessions.
Full ==
  Rec(Str("b"), SeqOf("MK", "protein"), Str("d"),
      <<Item("source", Str("y")), Item("organism", Str("Mus")),
        Item("ncbi_taxid", Str("10090")), Item("k", Str("u")), Item("j", None)>>,
      <<Str("db:1"), Str("db:2")>>)
Listed ==
  Rec(Str("c"), SeqOf("ACGU", "RNA"), Str(UnknownDescription),
      <<Item("k", List(<<Str("u"), Str("v")>>))>>, <<>>)
Default ==
  Rec(Str("e"), SeqOf("ACGT", "DNA"), Str(UnknownDescription),
      <<Item("source", Str("x")), Item("organism", Str("Homo")),
        Item("ncbi_taxid", Str("9606"))>>, <<>>)
SessionRecords == {Plain, Full, Listed, Default}

\* The arguments of SeqXmlWriter after the handle.
NoDefaults == <<None, None, None, None>>
Defaults == <<Str("x"), Str("1"), Str("Homo"), Str("9606")>>
WriterArgs == {NoDefaults, Defaults, <<None, None, Str("Homo"), IntV("9606")>>}
\* Arguments write_header rejects.
BadWriterArgs == {<<None, None, IntV("1"), None>>, <<Str("x"), None, None, FloatV("1.5")>>}

\* The inputs of a writing run: the writer's arguments and the records the
\* caller has to write.
WriterInputs ==
  (WriterArgs \X {<<r>> : r \in VariedRecords})
  \cup (BadWriterArgs \X {<<Plain>>})
  \cup ({NoDefaults} \X {<<r>> : r \in CrossedRecords})
  \cup ({NoDefaults, Defaults} \X SeqsUpTo(SessionRecords, MaxRecords))

\* ----------------------------------------------------------- the machine

VARIABLES
  doc,        \* the events pulldom.parse(handle) delivers, from the first
  os_name,    \* os.name
  phase,      \* "writing", "new", "open" (the constructor returned) or
              \* "failed" (it raised)
  reader,     \* the SeqXmlIterator object
  cursor,     \* the DOMEventStream: its place in doc, and whether clear()ed
  raised,     \* the exception the constructor raised, "" if none
  released,   \* how many times the reader has released its cursor
  log,        \* one entry per __next__ call so far, in call order
  writer,     \* the SeqXmlWriter object
  out,        \* the calls the writer has made on its XMLGenerator
  todo,       \* the records the caller has still to write
  wlog        \* one entry per call of a write method so far, in call order

rvars == <<doc, os_name, reader, cursor, raised, released, log>>
wvars == <<writer, out, todo, wlog>>
vars == <<doc, os_name, phase, reader, cursor, raised, released, log,
          writer, out, todo, wlog>>

\* A reader about to be constructed on a document.
Init ==
  /\ \E in \in Inputs :
       /\ doc = in[1]
       /\ reader = [NoReader EXCEPT !._namespace = in[2]]
       /\ os_name = in[3]
  /\ phase = "new"
  /\ cursor = [pos |-> 1, cleared |-> FALSE]
  /\ raised = ""
  /\ released = 0
  /\ log = <<>>
  /\ writer = Unset
  /\ out = <<>>
  /\ todo = <<>>
  /\ wlog = <<>>

\* SeqXmlIterator(handle, namespace)
SeqXmlIterator ==
  /\ phase = "new"
  /\ LET c == __init__(doc, reader._namespace)
     IN  /\ reader' = c.self
         /\ cursor' = c.cur
         /\ raised' = c.raised
         /\ released' = released + c.rel
         /\ phase' = IF c.raised = "" THEN "open" ELSE "failed"
  /\ UNCHANGED <<doc, os_name, log>>
  /\ UNCHANGED wvars

\* next(reader): one pull.  The log entry keeps what the caller got, how
\* the try body ended, the places in doc of the first and last event the
\* call read, whether the cursor was clear()ed before the call, and how
\* many times the call released the cursor.
Pull ==
  /\ phase = "open"
  /\ Len(log) < MaxPulls
  /\ \E o \in ClearedOutcomes :
       LET p == __next__(reader, doc, cursor, os_name, o)
       IN  /\ reader' = p.self
           /\ cursor' = p.cur
           /\ released' = released + p.rel
           /\ log' = Append(log, [kind |-> p.kind, value |-> p.value,
                                  exit |-> p.exit, line |-> p.line, col |-> p.col,
                                  first |-> cursor.pos, last |-> p.cur.pos - 1,
                                  cleared |-> cursor.cleared, rel |-> p.rel])
  /\ UNCHANGED <<doc, os_name, phase, raised>>
  /\ UNCHANGED wvars

Next == SeqXmlIterator \/ Pull

Spec == Init /\ [][Next]_vars

\* A writer just constructed: XMLGenerator.startDocument() has been called.
InitW ==
  /\ \E in \in WriterInputs :
       /\ writer = SeqXmlWriter__init__(in[1][1], in[1][2], in[1][3], in[1][4])
       /\ todo = in[2]
  /\ out = <<StartDocumentCall>>
  /\ wlog = <<>>
  /\ phase = "writing"
  /\ doc = <<>>
  /\ reader = [NoReader EXCEPT !._namespace = NoNS]
  /\ os_name = "posix"
  /\ cursor = [pos |-> 1, cleared |-> FALSE]
  /\ raised = ""
  /\ released = 0
  /\ log = <<>>

\* A write method has returned or raised.  The log entry keeps the method,
\* its record, the exception, whether write_header and write_footer had
\* been called before, and the places in out of the first and last call on
\* the XMLGenerator the method made.
Called(method, record, self, w) ==
  /\ writer' = self
  /\ out' = w.out
  /\ wlog' = Append(wlog, [call |-> method, record |-> record, raised |-> w.raised,
                           from |-> Len(out) + 1, to |-> Len(w.out)])
  /\ UNCHANGED <<phase, rvars>>

HeaderStarted(b) ==
  Called("write_header", None, b.self,
         IF b.raised # "" THEN W(out, b.raised) ELSE write_header(b.self, out))

\* writer.write_header()
WriteHeader ==
  /\ phase = "writing"
  /\ Len(wlog) < MaxCalls
  /\ HeaderStarted(SequentialSequenceWriter_write_header(writer))
  /\ UNCHANGED todo

\* writer.write_record(record) for the caller's next record
WriteRecord ==
  /\ phase = "writing"
  /\ Len(wlog) < MaxCalls
  /\ todo # <<>>
  /\ Called("write_record", Head(todo), writer, write_record(writer, out, Head(todo)))
  /\ todo' = Tail(todo)

FooterStarted(b) ==
  Called("write_footer", None, b.self,
         IF b.raised # "" THEN W(out, b.raised) ELSE write_footer(b.self, out))

\* writer.write_footer()
WriteFooter ==
  /\ phase = "writing"
  /\ Len(wlog) < MaxCalls
  /\ FooterStarted(SequentialSequenceWriter_write_footer(writer))
  /\ UNCHANGED todo

\* The caller has passed all its records and write_footer has finished the
\* file: it is opened for reading.
Reopen ==
  /\ phase = "writing"
  /\ todo = <<>>
  /\ writer._footer_written
  /\ doc' = Parse(out)
  /\ phase' = "new"
  /\ UNCHANGED <<os_name, reader, cursor, raised, released, log>>
  /\ UNCHANGED wvars

NextW == WriteHeader \/ WriteRecord \/ WriteFooter \/ Reopen \/ SeqXmlIterator \/ Pull

SpecW == InitW /\ [][NextW]_vars

\* ------------------------------------------------- reading: the documents

IsStart(e, n, ns) == e.ev = "START_ELEMENT" /\ e.ns = ns /\ e.name = n
IsEnd(e, n, ns) == e.ev = "END_ELEMENT" /\ e.ns = ns /\ e.name = n
IsText(e) == e.ev = "CHARACTERS"

\* The attributes an element must carry.
Mandatory(n) ==
  CASE n = "entry" -> {"id"}
    [] n = "species" -> {"name", "ncbiTaxID"}
    [] n = "property" -> {"name"}
    [] n = "DBRef" -> {"source", "id"}
    [] OTHER -> {}

\* The first event at or after i that is not character data.
TextEnd(d, i) == CHOOSE j \in i..(Len(d) + 1) :
                   /\ j = Len(d) + 1 \/ ~IsText(d[j])
                   /\ \A k \in i..(j - 1) : IsText(d[k])

\* A child of an entry that starts at event i of d and is as seqXML has it:
\* an empty element with its mandatory attributes, or a sequence or
\* description holding character data only (a sequence at least some).  The
\* index of its end event, 0 if event i starts no such child.
ChildEnd(d, ns, i) ==
  IF ~(d[i].ev = "START_ELEMENT" /\ d[i].ns = ns) \/ d[i].name \in {"entry", "seqXML"}
  THEN 0
  ELSE IF HasElemHandler(d[i].name)
  THEN IF /\ TextEnd(d, i + 1) <= Len(d)
          /\ IsEnd(d[TextEnd(d, i + 1)], d[i].name, ns)
          /\ (d[i].name = "description" \/ \E k \in (i + 1)..(TextEnd(d, i + 1) - 1) : d[k].data # "")
       THEN TextEnd(d, i + 1)
       ELSE 0
  ELSE IF /\ i < Len(d)
          /\ IsEnd(d[i + 1], d[i].name, ns)
          /\ Mandatory(d[i].name) \subseteq Keys(d[i].attrs)
       THEN i + 1
       ELSE 0

\* Events i.. of d are entries (when inEntry: the rest of one, then entries),
\* none nested, each child as seqXML has it, and then the seqXML end, which
\* is the last event.
RECURSIVE WellFormedFrom(_, _, _, _)
WellFormedFrom(d, ns, i, inEntry) ==
  IF i > Len(d) THEN FALSE
  ELSE IF ~inEntry
  THEN IF IsEnd(d[i], "seqXML", ns) THEN i = Len(d)
       ELSE /\ IsStart(d[i], "entry", ns)
            /\ Has(d[i].attrs, "id")
            /\ WellFormedFrom(d, ns, i + 1, TRUE)
  ELSE IF IsEnd(d[i], "entry", ns) THEN WellFormedFrom(d, ns, i + 1, FALSE)
       ELSE /\ ChildEnd(d, ns, i) # 0
            /\ WellFormedFrom(d, ns, ChildEnd(d, ns, i) + 1, TRUE)

\* A well-formed event stream: the document start, the seqXML start, the
\* entries, the seqXML end.
WellFormed(d, ns) ==
  /\ Len(d) >= 3
  /\ d[1].ev = "START_DOCUMENT"
  /\ IsStart(d[2], "seqXML", ns)
  /\ WellFormedFrom(d, ns, 3, FALSE)

\* The ids of the entries of d, in document order.
EntryIds(d, ns) ==
  LET starts == SelectSeq(d, LAMBDA e : IsStart(e, "entry", ns))
  IN  [k \in 1..Len(starts) |-> GetOrNone(starts[k].attrs, "id")]

\* The depth of event i of d: how many elements are open around it (an end
\* event has the depth of its start).
Level(d, i) ==
  Cardinality({j \in 1..(i - 1) : d[j].ev = "START_ELEMENT"})
  - Cardinality({j \in 1..(i - 1) : d[j].ev = "END_ELEMENT"})
  - (IF d[i].ev = "END_ELEMENT" THEN 1 ELSE 0)

\* The start of the element that ends at event j, 0 if there is none.
MatchingStart(d, j) ==
  LET level == Level(d, j)
      c == {i \in 1..(j - 1) : d[i].ev = "START_ELEMENT" /\ Level(d, i) = level}
  IN  IF c = {} THEN 0 ELSE CHOOSE i \in c : \A k \in c : k <= i

\* The end of the element that starts at event i, Len(d) + 1 if the document
\* breaks off before it.
MatchingEnd(d, i) ==
  LET level == Level(d, i)
      c == {j \in (i + 1)..Len(d) : d[j].ev = "END_ELEMENT" /\ Level(d, j) = level}
  IN  IF c = {} THEN Len(d) + 1 ELSE CHOOSE j \in c : \A k \in c : j <= k

\* Event i lies inside an element the reader expands into a node.
InsideBlock(d, ns, i) ==
  \E j \in 1..(i - 1) : /\ d[j].ev = "START_ELEMENT" /\ d[j].ns = ns
                        /\ HasElemHandler(d[j].name)
                        /\ MatchingEnd(d, j) > i

\* The log entries of the pulls that handed the caller something.
Returned == {k \in 1..Len(log) : log[k].kind = "return"}
Yielded == {k \in Returned : log[k].value # None}

\* ---------------------------------------------------- reading: the claims

\* C1: for a well-formed event stream of N entries the pulls yield N
\* records, the k-th carrying the id of the k-th entry, and every pull after
\* them ends the sequence; for N = 0 the first pull does.
C1_YieldsEveryEntryInOrder ==
  WellFormed(doc, reader._namespace) =>
    /\ phase # "failed"
    /\ \A k \in 1..Len(log) :
         IF k <= Len(EntryIds(doc, reader._namespace))
         THEN /\ log[k].kind = "return"
              /\ log[k].value # None
              /\ log[k].value.id = EntryIds(doc, reader._namespace)[k]
         ELSE log[k].kind = "StopIteration"

C1_Witness ==
  /\ WellFormed(doc, reader._namespace)
  /\ Len(EntryIds(doc, reader._namespace)) >= 2
  /\ Len(log) > Len(EntryIds(doc, reader._namespace))
  /\ log[Len(log)].kind = "StopIteration"
  /\ log[1].value.id # log[2].value.id

\* The exits of a pull that end reading.
EndsReading(l) == l.exit \in {"end", "SAXParseException", "ValueError", "AttributeError"}

\* C2: on every exit that ends reading (the seqXML end, the empty-document
\* condition, a parse error, any other failure of the constructor or of a
\* pull) the reader has released its cursor exactly once, holds no cursor
\* afterwards, and no later pull uses or releases it again.
C2_CursorReleasedOnce ==
  /\ phase = "failed" => reader._events = None /\ released = 1
  /\ \A k \in 1..Len(log) :
       EndsReading(log[k]) =>
         /\ reader._events = None
         /\ released = 1
         /\ \A j \in (k + 1)..Len(log) : log[j].exit = "closed" /\ log[j].rel = 0

\* C3: once a pull has raised an error, every later pull ends the sequence
\* without reading from the cursor.
C3_ErrorTerminatesSequence ==
  \A k \in 1..Len(log) :
    log[k].kind \notin {"return", "StopIteration"} =>
      \A j \in (k + 1)..Len(log) : log[j].kind = "StopIteration" /\ log[j].exit = "closed"

\* C4: a parse error at line 1, column 0 during a pull ends the sequence as
\* the seqXML end does: the pull hands the caller nothing and raises
\* StopIteration, and so does every later pull.
C4_EmptyDocumentEndsSequence ==
  \A k \in 1..Len(log) :
    (log[k].exit = "SAXParseException" /\ log[k].line = 1 /\ log[k].col = 0) =>
      \A j \in k..Len(log) : log[j].kind = "StopIteration"

\* C5: whatever a pull hands to the caller is a record, created by an entry
\* start read in that same pull and returned at the matching entry end.
C5_OnlyCompleteRecordsReturned ==
  \A k \in Returned :
    /\ log[k].value # None
    /\ IsEnd(doc[log[k].last], "entry", reader._namespace)
    /\ MatchingStart(doc, log[k].last) >= log[k].first
    /\ log[k].value.id = GetOrNone(doc[MatchingStart(doc, log[k].last)].attrs, "id")

\* The property elements between events s and j which the reader
\* dispatches: the places of their start events, in document order.
PropertiesBetween(s, j) ==
  SelectSeq([i \in 1..(j - s - 1) |-> s + i],
            LAMBDA i : /\ IsStart(doc[i], "property", reader._namespace)
                       /\ ~InsideBlock(doc, reader._namespace, i))
\* Those of the entry that ends at event j.
PropertiesOf(j) == PropertiesBetween(MatchingStart(doc, j), j)
\* The values of the properties named n among them, in document order (None
\* for a property without value), and the names there are.
ValuesAt(props, n) ==
  LET at == SelectSeq(props, LAMBDA i : GetOrNone(doc[i].attrs, "name") = Str(n))
  IN  [k \in 1..Len(at) |-> GetOrNone(doc[at[k]].attrs, "value")]
NamesAt(props) == {GetOrNone(doc[props[k]].attrs, "name").v : k \in 1..Len(props)}
ValuesOf(j, n) == ValuesAt(PropertiesOf(j), n)

\* What k property elements of one name make of the annotation: the scalar
\* for one, the list of all k in encounter order for more.
Promoted(values) == IF Len(values) = 1 THEN values[1] ELSE List(values)

ReservedKeys == {"organism", "ncbi_taxid", "source"}

\* The annotations of `record` are what the properties `props` of its entry
\* make them, for every name but the excluded ones.
PromotedAt(record, props, excluded) ==
  \A n \in NamesAt(props) \ excluded :
    /\ Has(record.annotations, n)
    /\ Get(record.annotations, n) = Promoted(ValuesAt(props, n))

\* C10 as stated, for every property name: violated by a property named
\* like an annotation the entry start has already set.
C10_PromotionForEveryName ==
  \A k \in Yielded : PromotedAt(log[k].value, PropertiesOf(log[k].last), {})

\* C10, amended: within one entry, for every property name n other than the
\* reserved keys source, organism and ncbi_taxid, the annotation n is the
\* scalar value after one property element named n (None without a value
\* attribute) and the list of all values in encounter order after two or
\* more.
C10_PromotionForPlainNames ==
  \A k \in Yielded : PromotedAt(log[k].value, PropertiesOf(log[k].last), ReservedKeys)

C10_Witness ==
  \E k \in Yielded :
    /\ Len(ValuesOf(log[k].last, "k")) >= 3
    /\ None \in {ValuesOf(log[k].last, "k")[i] : i \in 1..3}
    /\ Get(log[k].value.annotations, "k") = List(ValuesOf(log[k].last, "k"))

\* ------------------------------------------- reading: defaults and errors

\* The species elements between events s and j which the reader dispatches.
SpeciesBetween(s, j) ==
  SelectSeq([i \in 1..(j - s - 1) |-> s + i],
            LAMBDA i : /\ IsStart(doc[i], "species", reader._namespace)
                       /\ ~InsideBlock(doc, reader._namespace, i))

\* An attribute of the root element, Unset if the root has none of the name.
RootValue(n) == IF Has(doc[2].attrs, n) THEN Get(doc[2].attrs, n) ELSE Unset

\* What the entry that starts at event s, with the species elements at
\* `species`, makes of a reserved annotation; Unset for none.
Inherited(n, s, species) ==
  CASE n = "source" ->
         IF Has(doc[s].attrs, "source") THEN Get(doc[s].attrs, "source")
         ELSE RootValue("source")
    [] n = "organism" ->
         IF species # <<>> THEN Get(doc[species[Len(species)]].attrs, "name")
         ELSE RootValue("speciesName")
    [] n = "ncbi_taxid" ->
         IF species # <<>> THEN Get(doc[species[Len(species)]].attrs, "ncbiTaxID")
         ELSE RootValue("ncbiTaxID")

IsInherited(record, n, expected) ==
  IF expected = Unset THEN ~Has(record.annotations, n)
  ELSE Has(record.annotations, n) /\ Get(record.annotations, n) = expected

InheritedAt(record, s, j, names) ==
  \A n \in names : IsInherited(record, n, Inherited(n, s, SpeciesBetween(s, j)))

\* C11 as stated, for every yielded record: violated by an entry with a
\* property element named like a reserved annotation.
C11_DefaultsForEveryEntry ==
  \A k \in Yielded :
    InheritedAt(log[k].value, MatchingStart(doc, log[k].last), log[k].last, ReservedKeys)

\* C11, amended: for every yielded record and each of source, organism and
\* ncbi_taxid that no property element of the entry is named like, the
\* annotation source is the entry's own source attribute if present,
\* otherwise the document's source if set, otherwise absent; organism and
\* ncbi_taxid are those of the entry's last species element if it has one,
\* otherwise the document's speciesName and ncbiTaxID if set, otherwise
\* absent.
C11_DefaultsWithoutReservedProperty ==
  \A k \in Yielded :
    InheritedAt(log[k].value, MatchingStart(doc, log[k].last), log[k].last,
                ReservedKeys \ NamesAt(PropertiesOf(log[k].last)))

C11_Witness ==
  \E k \in Yielded :
    /\ RootValue("source") = Str("x")
    /\ Get(log[k].value.annotations, "source") = Str("y")
    /\ SpeciesBetween(MatchingStart(doc, log[k].last), log[k].last) # <<>>
    /\ Get(log[k].value.annotations, "organism") = Str("Mus")

\* Event i starts an element the reader dispatches: one of its namespace
\* that lies in no element expanded into a node.
Dispatched(i) ==
  /\ doc[i].ev = "START_ELEMENT" /\ doc[i].ns = reader._namespace
  /\ ~InsideBlock(doc, reader._namespace, i)

\* The element that starts at event i and ends at event j has no text.
HasNoText(i, j) == \A e \in (i + 1)..(j - 1) : ~IsText(doc[e]) \/ doc[e].data = ""

\* Event i starts an element without its mandatory content: a mandatory
\* attribute is missing, or it is a whole sequence element without text.
LacksMandatory(i) ==
  \/ ~(Mandatory(doc[i].name) \subseteq Keys(doc[i].attrs))
  \/ /\ doc[i].name \in {"DNAseq", "RNAseq", "AAseq"}
     /\ MatchingEnd(doc, i) <= Len(doc)
     /\ HasNoText(i, MatchingEnd(doc, i))

\* C12: every mandatory-content violation a pull meets (an entry without
\* id, a species without name or ncbiTaxID, a property without name, a DBRef
\* without source or id, a sequence element without text) makes the pull
\* raise the format error, so that it yields no record.
C12_ViolationsRaiseFormatError ==
  \A k \in 1..Len(log) : \A i \in log[k].first..log[k].last :
    (Dispatched(i) /\ LacksMandatory(i)) => log[k].kind = "ValueError"

\* The "source:id" strings of the DBRef elements between events s and j
\* which the reader dispatches, in document order.
DBRefsBetween(s, j) ==
  SelectSeq([i \in 1..(j - s - 1) |-> s + i],
            LAMBDA i : IsStart(doc[i], "DBRef", reader._namespace) /\ Dispatched(i))
RefsAt(at) ==
  [b \in 1..Len(at) |->
     Str(Get(doc[at[b]].attrs, "source").v \o ":" \o Get(doc[at[b]].attrs, "id").v)]
RefsOf(j) == RefsAt(DBRefsBetween(MatchingStart(doc, j), j))

\* A sequence without what it already holds before: each element once, in
\* the order of the first occurrences.
FirstPlaces(q) ==
  SelectSeq([b \in 1..Len(q) |-> b], LAMBDA b : \A c \in 1..(b - 1) : q[c] # q[b])
Distinct(q) == \A b \in 1..Len(q) : \A c \in 1..(b - 1) : q[c] # q[b]
FirstOccurrences(q, places) == [x \in 1..Len(places) |-> q[places[x]]]
OncePerReference(dbxrefs, refs) ==
  Distinct(dbxrefs) /\ dbxrefs = FirstOccurrences(refs, FirstPlaces(refs))

\* C13: the cross-references of a yielded record hold no string twice: they
\* are the "source:id" strings of the entry's DBRef elements, each distinct
\* one once, in the order of first occurrence.
C13_DbxrefsWithoutDuplicates ==
  \A k \in Yielded : OncePerReference(log[k].value.dbxrefs, RefsOf(log[k].last))

C13_Witness ==
  \E k \in Yielded :
    /\ RefsOf(log[k].last) = <<Str("db:1"), Str("db:2"), Str("db:1")>>
    /\ log[k].value.dbxrefs = <<Str("db:1"), Str("db:2")>>

\* ----------------------------------------------- reading: the subtrees

Elements(q) == {q[i] : i \in 1..Len(q)}

\* The record is made of what the reader dispatches between the start of
\* the entry that ends at event j and j, and of nothing else: its id is that
\* of the entry start, an annotation outside the reserved keys has a
\* property of that name, a reserved one without such a property is the
\* inherited one, and a cross-reference has its DBRef.
MadeOfDispatched(record, s, j, props) ==
  /\ s > 0 /\ IsStart(doc[s], "entry", reader._namespace) /\ Dispatched(s)
  /\ record.id = Get(doc[s].attrs, "id")
  /\ Keys(record.annotations) \ ReservedKeys \subseteq NamesAt(props)
  /\ InheritedAt(record, s, j, ReservedKeys \ NamesAt(props))
  /\ Elements(record.dbxrefs) \subseteq Elements(RefsAt(DBRefsBetween(s, j)))

\* The pull returned at the end of an entry, or ended the sequence at the
\* end of seqXML, and that end is not inside an expanded element.
EndsOutsideBlocks(l) ==
  /\ (l.exit = "return") =>
       IsEnd(doc[l.last], "entry", reader._namespace)
       /\ ~InsideBlock(doc, reader._namespace, l.last)
  /\ (l.exit = "end") =>
       IsEnd(doc[l.last], "seqXML", reader._namespace)
       /\ ~InsideBlock(doc, reader._namespace, l.last)

\* C19: the events inside a DNAseq, RNAseq, AAseq or description element
\* are consumed with it and never dispatched: an entry, property, DBRef or
\* species start nested there creates no record and changes no annotation
\* or cross-reference, the end of an entry or of seqXML nested there
\* neither yields a record nor ends the sequence; and no element name has
\* both an attribute handler and a subtree handler.
C19_NestedEventsNotDispatched ==
  /\ \A i \in 1..Len(doc) :
       doc[i].ev = "START_ELEMENT" =>
         ~(HasAttrHandler(doc[i].name) /\ HasElemHandler(doc[i].name))
  /\ \A k \in 1..Len(log) : EndsOutsideBlocks(log[k])
  /\ \A k \in Yielded :
       MadeOfDispatched(log[k].value, MatchingStart(doc, log[k].last), log[k].last,
                        PropertiesOf(log[k].last))

Nested(n, l) ==
  \E i \in l.first..l.last :
    IsStart(doc[i], n, reader._namespace) /\ InsideBlock(doc, reader._namespace, i)

C19_Witness ==
  \E k \in Yielded :
    /\ Nested("entry", log[k]) /\ Nested("property", log[k])
    /\ log[k].value.id = Str("a")
    /\ log[k].value.annotations = EmptyDict
    /\ log[k].value.description = Str("d")
    /\ Len(log) > k /\ log[k + 1].exit = "end"

\* ------------------------------------------------ reading: the metadata

\* The root attribute n of the document, None when the root has none.
RootOrNone(n) == IF RootValue(n) = Unset THEN None ELSE RootValue(n)

\* C20: once the constructor has returned, and after any number of pulls,
\* the reader's fields source, source_version, version, speciesName and
\* ncbiTaxID are the root attributes source, sourceVersion, seqXMLversion,
\* speciesName and ncbiTaxID, None for an attribute the root does not have,
\* whatever other attributes the root has.
C20_MetadataFromRootAttributes ==
  phase = "open" =>
    /\ reader.source = RootOrNone("source")
    /\ reader.source_version = RootOrNone("sourceVersion")
    /\ reader.version = RootOrNone("seqXMLversion")
    /\ reader.speciesName = RootOrNone("speciesName")
    /\ reader.ncbiTaxID = RootOrNone("ncbiTaxID")

\* --------------------------------------------- reading: after the end

\* A pull has ended the sequence at the end of seqXML.
Ended == \E k \in 1..Len(log) : log[k].exit = "end"

\* The step is a pull: the log has one entry more.
Pulls(before, after) == Len(after) = Len(before) + 1

\* The pull read no event, handed nothing to the caller and raised
\* StopIteration without entering the try body.
EndsAtOnce(l) ==
  /\ l.kind = "StopIteration" /\ l.exit = "closed"
  /\ l.value = None
  /\ l.last < l.first
  /\ l.rel = 0

\* C21: once a pull has ended the sequence at the end of seqXML, the reader
\* holds no cursor, and every later pull raises StopIteration at once: it
\* reads no event, yields no record, raises nothing else and leaves the
\* fields of the reader and the cursor as they were.
C21_EndOfSequenceAbsorbing ==
  [][(Ended /\ Pulls(log, log')) =>
       /\ reader._events = None
       /\ EndsAtOnce(log'[Len(log')])
       /\ reader' = reader
       /\ cursor' = cursor
       /\ released' = released]_vars

C21_Witness ==
  \E k \in 2..(Len(log) - 2) :
    /\ log[k - 1].kind = "return" /\ IsRecord(log[k - 1].value)
    /\ log[k].exit = "end" /\ log[k].kind = "StopIteration"
    /\ EndsAtOnce(log[k + 1]) /\ EndsAtOnce(log[k + 2])
    /\ reader._events = None /\ reader.source = Str("x")
    /\ cursor.pos = log[k].last + 1

\* ------------------------------------------------------ writing: the calls

Calls(method) == {k \in 1..Len(wlog) : wlog[k].call = method}
Accepted == {k \in Calls("write_record") : wlog[k].raised = ""}
Failed == {k \in Calls("write_record") : wlog[k].raised # ""}

\* What call k of the log made the XMLGenerator do.
Segment(k) == SubSeq(out, wlog[k].from, wlog[k].to)
Silent(k) == wlog[k].to < wlog[k].from

\* write_header, write_record for each record, write_footer, and every call
\* returned; the records written.
WholeSession ==
  /\ Len(wlog) >= 2
  /\ wlog[1].call = "write_header"
  /\ wlog[Len(wlog)].call = "write_footer"
  /\ \A k \in 2..(Len(wlog) - 1) : wlog[k].call = "write_record"
  /\ \A k \in 1..Len(wlog) : wlog[k].raised = ""
Written == [k \in 1..(Len(wlog) - 2) |-> wlog[k + 1].record]

\* Records of text: a description that is not empty, annotations that are
\* none, a string or a list of strings.
IsTextValue(x) == x = None \/ IsString(x) \/ (IsList(x) /\ \A i \in 1..Len(x.v) : IsString(x.v[i]))
IsTextRecord(w) ==
  /\ IsString(w.description) /\ w.description.v # ""
  /\ \A i \in 1..Len(w.annotations) : IsTextValue(w.annotations[i].v)

\* The annotation n of the record written is kept by the record read: a
\* scalar as it is, a list of two or more as the same list.
Kept(w, r, n) ==
  (~IsList(Get(w.annotations, n)) \/ Len(Get(w.annotations, n).v) >= 2) =>
    /\ Has(r.annotations, n)
    /\ Get(r.annotations, n) = Get(w.annotations, n)

SameRecord(w, r) ==
  /\ r # None
  /\ r.id = w.id
  /\ r.description = w.description
  /\ r.seq.data = w.seq.data
  /\ r.seq.alphabet = _get_base_alphabet(w.seq.alphabet)
  /\ Elements(r.dbxrefs) = Elements(w.dbxrefs)
  /\ \A n \in Keys(w.annotations) \ ReservedKeys : Kept(w, r, n)

\* C6: after write_header, write_record for each record of a list of valid
\* records and write_footer, reading the document back yields, record by
\* record, the same identifier, description, sequence text, alphabet, set
\* of cross-references and non-reserved annotations, a list of two or more
\* values as the same list; then the sequence ends.
C6_RoundTrip ==
  (/\ WholeSession
   /\ \A k \in 1..Len(Written) : IsTextRecord(Written[k])
   /\ phase \in {"open", "failed"}) =>
    /\ phase = "open"
    /\ \A k \in 1..Len(log) :
         IF k <= Len(Written)
         THEN log[k].kind = "return" /\ SameRecord(Written[k], log[k].value)
         ELSE log[k].kind = "StopIteration"

\* C7 as stated: whenever write_record raises, it has emitted nothing for
\* that record.
C7_ValidatedBeforeAnyOutput == \A k \in Failed : Silent(k)

\* The validations write_record makes before the entry start.
BadId(record) == ~Truthy(record.id) \/ record.id = Str(UnknownId) \/ ~IsString(record.id)
BadSource(record) ==
  /\ Has(record.annotations, "source")
  /\ writer.source # Get(record.annotations, "source")
  /\ ~IsString(Get(record.annotations, "source"))

\* C7, amended: write_record validates the identifier and the type of the
\* source annotation before it emits anything, and when one of them fails
\* nothing has been emitted for the record; every other validation
\* (organism and ncbi_taxid type, description type, sequence unknown or
\* empty, alphabet, cross-reference form) is made after the entry start has
\* been emitted, and when one of them fails the output for the record is
\* the entry start and the blocks before the failing field, without the
\* entry end.
C7_HeadValidatedBeforeOutput ==
  \A k \in Failed :
    IF BadId(wlog[k].record) \/ BadSource(wlog[k].record)
    THEN Silent(k)
    ELSE /\ ~Silent(k)
         /\ out[wlog[k].from].op = "startElement" /\ out[wlog[k].from].name = "entry"
         /\ EndElementCall("entry") \notin Elements(Segment(k))

C7_Witness ==
  \E k \in Failed :
    /\ wlog[k].raised = "ValueError"
    /\ ~BadId(wlog[k].record)
    /\ Len(Segment(k)) = 9
    /\ Segment(k)[5] = StartElementCall("DNAseq", EmptyDict)
    /\ Segment(k)[8] = StartElementCall("DBRef", <<Item("source", Str("db")), Item("id", Str("1"))>>)

\* A call out of the order write_header, write_record..., write_footer.
HeaderBefore(k) == \E j \in 1..(k - 1) : wlog[j].call = "write_header"
FooterBefore(k) == \E j \in 1..(k - 1) : wlog[j].call = "write_footer" /\ wlog[j].raised = ""
OutOfOrder(k) ==
  \/ wlog[k].call \in {"write_record", "write_footer"} /\ ~HeaderBefore(k)
  \/ wlog[k].call = "write_header" /\ HeaderBefore(k)
  \/ wlog[k].call = "write_record" /\ FooterBefore(k)

\* C8: write_record or write_footer before write_header, write_header a
\* second time, and write_record after write_footer each raise a usage
\* error and emit nothing.
C8_CallOrderEnforced ==
  \A k \in 1..Len(wlog) :
    OutOfOrder(k) => wlog[k].raised = "AssertionError" /\ Silent(k)

\* The blocks of a segment: the places of its start tags after the first,
\* and their names.
BlockStarts(q) ==
  SelectSeq([i \in 1..Len(q) |-> i], LAMBDA i : i > 1 /\ q[i].op = "startElement")
NamesOfBlocks(q, starts) == [b \in 1..Len(starts) |-> q[starts[b]].name]
BlockNames(q) == NamesOfBlocks(q, BlockStarts(q))
Count(names, S) == Cardinality({b \in 1..Len(names) : names[b] \in S})

\* Every call between the entry start and the entry end belongs to a block
\* start, [text,] end of one name.
IsBlockAt(q, i) ==
  /\ q[i].op = "startElement"
  /\ \/ q[i + 1] = EndElementCall(q[i].name)
     \/ /\ i + 2 <= Len(q)
        /\ q[i + 1].op = "characters"
        /\ q[i + 2] = EndElementCall(q[i].name)
InBlock(q, i) ==
  \/ IsBlockAt(q, i)
  \/ i > 2 /\ IsBlockAt(q, i - 1)
  \/ i > 3 /\ IsBlockAt(q, i - 2) /\ q[i - 1].op = "characters"
Complete(q) ==
  /\ Len(q) >= 2
  /\ q[1].op = "startElement" /\ q[1].name = "entry"
  /\ q[Len(q)] = EndElementCall("entry")
  /\ \A i \in 2..(Len(q) - 1) : InBlock(q, i)

Rank(n) ==
  CASE n = "species" -> 1
    [] n = "description" -> 2
    [] n \in {"DNAseq", "RNAseq", "AAseq"} -> 3
    [] n = "DBRef" -> 4
    [] n = "property" -> 5
    [] OTHER -> 0

\* The DBRef blocks, whose places in q are `refs`, are the cross-references
\* in list order.
InListOrder(q, refs, dbxrefs) ==
  /\ Len(refs) = Len(dbxrefs)
  /\ \A b \in 1..Len(refs) :
       Get(q[refs[b]].attrs, "source").v \o ":" \o Get(q[refs[b]].attrs, "id").v = dbxrefs[b].v

\* The blocks, whose names are `names` in the order emitted, follow the
\* order of the fields.
Ordered(names, record) ==
  /\ \A b \in 1..Len(names) : Rank(names[b]) > 0
  /\ \A b \in 1..(Len(names) - 1) : Rank(names[b]) <= Rank(names[b + 1])
  /\ Count(names, {"species"}) <= 1
  /\ Count(names, {"description"}) <= 1
  /\ Count(names, {"DNAseq", "RNAseq", "AAseq"}) = 1
  /\ Count(names, {SeqElem(_get_base_alphabet(record.seq.alphabet))}) = 1

InOrder(q, record) ==
  /\ Ordered(BlockNames(q), record)
  /\ InListOrder(q, SelectSeq(BlockStarts(q), LAMBDA i : q[i].name = "DBRef"), record.dbxrefs)

\* C9: for every record write_record accepts, what it emits is the entry
\* start, at most one species block, at most one description block, exactly
\* one sequence block named by the alphabet, one DBRef block per
\* cross-reference in list order, the property blocks, and the entry end,
\* every block closed before the next begins.
EmittedInOrder(q, record) == Complete(q) /\ InOrder(q, record)
C9_EmissionOrder == \A k \in Accepted : EmittedInOrder(Segment(k), wlog[k].record)

C9_Witness ==
  \E k \in Accepted :
    BlockNames(Segment(k)) =
      <<"species", "description", "AAseq", "DBRef", "DBRef", "property", "property">>

\* ------------------------------------------------- writing: the defaults

\* The write_record calls that emitted the start of an entry.
Entered == {k \in Calls("write_record") : ~Silent(k)}
EntryStart(k) == out[wlog[k].from]
HasSource(record) == Has(record.annotations, "source")
SourceOf(record) == Get(record.annotations, "source")

\* The entry start of a record with a source annotation carries a source
\* attribute, the record's own, exactly when that differs from the source
\* of the document.
SourceSuppressed(self, record, start) ==
  /\ start.op = "startElement" /\ start.name = "entry"
  /\ IF SourceOf(record) = self.source
     THEN ~Has(start.attrs, "source")
     ELSE Has(start.attrs, "source") /\ Get(start.attrs, "source") = SourceOf(record)

\* The record read back has the source of the record written, which is the
\* source of the document when the entry start carries none.
SourceResolved(self, record, entry) ==
  /\ entry.kind = "return"
  /\ IsRecord(entry.value)
  /\ HasSource(entry.value)
  /\ SourceOf(entry.value) = SourceOf(record)
  /\ (SourceOf(record) = self.source) => SourceOf(entry.value) = RootValue("source")

\* C14: a record whose source annotation equals the source of the document
\* is written with an entry start without source attribute, and read back
\* with the source of the document as its source annotation; a record whose
\* source annotation differs is written with its own source attribute and
\* read back with its own value.
C14_SourceSuppressedAndResolved ==
  /\ \A k \in Entered :
       HasSource(wlog[k].record) => SourceSuppressed(writer, wlog[k].record, EntryStart(k))
  /\ (WholeSession /\ phase = "open") =>
       \A k \in 1..Len(Written) :
         (k <= Len(log) /\ HasSource(Written[k])) =>
           SourceResolved(writer, Written[k], log[k])

C14_Witness ==
  /\ WholeSession /\ phase = "open"
  /\ Written = <<Default, Full>>
  /\ Len(log) >= 2
  /\ ~Has(EntryStart(2).attrs, "source")
  /\ Get(EntryStart(3).attrs, "source") = Str("y")
  /\ SourceOf(log[1].value) = Str("x") /\ RootValue("source") = Str("x")
  /\ SourceOf(log[2].value) = Str("y")

\* ---------------------------------------------- writing: the validations

\* The identifier of the record is missing, empty or the unknown one.
IdMissing(record) == record.id \in {None, Str(""), Str(UnknownId)}

\* The step is a call of write_record with the record.
WritesRecord(before, after) ==
  /\ Len(after) = Len(before) + 1
  /\ after[Len(after)].call = "write_record"

\* C15: write_record with a record whose identifier is missing, empty or
\* "<unknown id>" raises ValueError, and the output written and the fields
\* of the writer are after the call what they were before it.
C15_MissingIdRaisesAndChangesNothing ==
  [][(WritesRecord(wlog, wlog') /\ IdMissing(wlog'[Len(wlog')].record)) =>
       /\ wlog'[Len(wlog')].raised = "ValueError"
       /\ out' = out
       /\ writer' = writer]_vars

C15_Witness ==
  \E k \in Failed :
    /\ wlog[k].record.id = Str(UnknownId)
    /\ wlog[k].raised = "ValueError"
    /\ Silent(k)
    /\ k = 2 /\ wlog[1].call = "write_header" /\ wlog[1].raised = ""
    /\ out[Len(out)].op = "startElement" /\ out[Len(out)].name = "seqXML"

\* The ncbi_taxid annotation of the record is a list of two or more.
ManyTaxids(record) ==
  /\ Has(record.annotations, "ncbi_taxid")
  /\ IsList(Get(record.annotations, "ncbi_taxid"))
  /\ Len(Get(record.annotations, "ncbi_taxid").v) > 1

\* The elements of the given name that call k of the log started.
StartsOf(k, n) ==
  {i \in wlog[k].from..wlog[k].to : out[i].op = "startElement" /\ out[i].name = n}

\* C16: write_record raises for every record whose ncbi_taxid annotation is
\* a list of more than one element, with or without an organism annotation,
\* and emits no species block for it.
C16_ManyTaxidsRaise ==
  \A k \in Calls("write_record") :
    ManyTaxids(wlog[k].record) => (wlog[k].raised # "" /\ StartsOf(k, "species") = {})

\* ----------------------------------------------- writing: the properties

\* The attributes of the property tags of the given name that call k of the
\* log emitted, in the order of emission.
PropertyStarts(k, n) ==
  SelectSeq([i \in 1..(wlog[k].to - wlog[k].from + 1) |-> out[wlog[k].from + i - 1]],
            LAMBDA c : /\ c.op = "startElement" /\ c.name = "property"
                       /\ Get(c.attrs, "name") = Str(n))

\* The property tags an annotation stands for: none for a value of another
\* kind.
IsScalar(x) == x # None /\ ~IsList(x) /\ IsPrimitive(x)
TagsFor(n, x) ==
  IF x = None THEN <<(<<Item("name", Str(n))>>)>>
  ELSE IF IsList(x)
  THEN [j \in 1..Len(x.v) |-> <<Item("name", Str(n)), Item("value", x.v[j])>>]
  ELSE <<(<<Item("name", Str(n)), Item("value", PyStr(x))>>)>>
HasTagsFor(x) ==
  x = None \/ IsScalar(x) \/ (IsList(x) /\ \A j \in 1..Len(x.v) : IsScalar(x.v[j]))

PropertiesWritten(k, annotations) ==
  \A i \in 1..Len(annotations) :
    (annotations[i].k \notin ReservedKeys /\ HasTagsFor(annotations[i].v)) =>
      [j \in 1..Len(PropertyStarts(k, annotations[i].k)) |->
         PropertyStarts(k, annotations[i].k)[j].attrs]
        = TagsFor(annotations[i].k, annotations[i].v)

\* C17: write_record emits, for an annotation outside the reserved keys, one
\* property tag per element of a list of scalars, in list order and with the
\* element as value; one property tag without value for None; one property
\* tag with the value as a string for a scalar.
C17_OnePropertyPerValue ==
  \A k \in Accepted : PropertiesWritten(k, wlog[k].record.annotations)

\* ---------------------------------------------- writing: the description

\* The description with the unknown one and a missing one taken for empty.
Normalised(description) ==
  IF description = None \/ description = Str(UnknownDescription) THEN Str("") ELSE description

\* C18: write_record emits a description block exactly when the description
\* of the record, "<unknown description>" taken for empty, is not empty: a
\* record with the unknown description, an empty one or none gets no
\* description block.
C18_DescriptionBlockIffNotEmpty ==
  \A k \in Accepted :
    (StartsOf(k, "description") # {}) <=> (Normalised(wlog[k].record.description) # Str(""))

====
